---- MODULE Spec2Model ----
(***************************************************************************)
(* Model of src/main.py: the GraphQL introspection checker.                *)
(*                                                                         *)
(*   Spec        check_introspection, one step per request / evaluation    *)
(*   SpecHeaders parse_headers, one step per loop iteration                *)
(*   SpecNorm    the URL validation and normalisation of main              *)
(*   SpecMain    the entry point main()                                    *)
(*                                                                         *)
(* Python strings that the code inspects character by character (header    *)
(* strings, URLs, Content-Type values, JSON strings) are sequences of      *)
(* one-character strings.                                                  *)
(***************************************************************************)
EXTENDS Integers, Sequences, FiniteSets, TLC

\* ------------------------------------------------------------------ bounds
MaxHeaders == 2      \* longest header list given to parse_headers
MaxStrLen  == 3      \* longest header string
MaxChars   == 6      \* most characters in a header list, all strings together
MaxRest    == 2      \* longest URL remainder after the scheme-like prefix

\* ------------------------------------------------------- string primitives
\* s[i..] starts with p (str.startswith, and the inner test of `in`)
StartsWithAt(s, p, i) ==
    /\ i + Len(p) - 1 <= Len(s)
    /\ \A j \in 1..Len(p) : s[i + j - 1] = p[j]

\* Python `needle in haystack` for two strings
Contains(s, p) == \E i \in 1..(Len(s) + 1) : StartsWithAt(s, p, i)

\* str.startswith(prefix)
StartsWith(s, p) == StartsWithAt(s, p, 1)

LowerChar(c) ==
    CASE c = "A" -> "a" [] c = "B" -> "b" [] c = "C" -> "c" [] c = "D" -> "d"
      [] c = "E" -> "e" [] c = "F" -> "f" [] c = "G" -> "g" [] c = "H" -> "h"
      [] c = "I" -> "i" [] c = "J" -> "j" [] c = "K" -> "k" [] c = "L" -> "l"
      [] c = "M" -> "m" [] c = "N" -> "n" [] c = "O" -> "o" [] c = "P" -> "p"
      [] c = "Q" -> "q" [] c = "R" -> "r" [] c = "S" -> "s" [] c = "T" -> "t"
      [] c = "U" -> "u" [] c = "V" -> "v" [] c = "W" -> "w" [] c = "X" -> "x"
      [] c = "Y" -> "y" [] c = "Z" -> "z" [] OTHER -> c

\* str.lower()
Lower(s) == [i \in 1..Len(s) |-> LowerChar(s[i])]

\* ------------------------------------------------------------ literals
TEXT_HTML == <<"t","e","x","t","/","h","t","m","l">>
APPLICATION_JSON ==
    <<"a","p","p","l","i","c","a","t","i","o","n","/","j","s","o","n">>
K_data   == <<"d","a","t","a">>
K_schema == <<"_","_","s","c","h","e","m","a">>
K_errors == <<"e","r","r","o","r","s">>

\* ------------------------------------------------------------ the network
\* Content-Type values a server may send
CTypes ==
    { TEXT_HTML,
      <<"T","e","x","t","/","H","T","M","L">>,
      TEXT_HTML \o <<";"," ","c","h","a","r","s","e","t","=","u","t","f","-","8">>,
      APPLICATION_JSON,
      <<"A","p","p","l","i","c","a","t","i","o","n","/","J","S","O","N">>,
      <<"t","e","x","t","/","p","l","a","i","n">> }

\* response.headers: a mapping that may lack Content-Type
HeaderMaps == { [k \in {} |-> <<>>] } \cup [{"Content-Type"} -> CTypes]

Statuses == {200, 399, 400, 500, 599, 600}

\* response bodies, as text
Bodies ==
    { "{\"data\": {\"__schema\": {}}}",
      "{\"data\": {\"__schema\": null}}",
      "{\"data\": {}}",
      "{\"data\": null}",
      "{\"errors\": []}",
      "{\"data\": \"__schema\"}",
      "{\"data\": [\"__schema\"]}",
      "[\"data\"]",
      "\"data\"",
      "null",
      "1",
      "<html></html>",
      "" }

Responses == [status : Statuses, headers : HeaderMaps, text : Bodies]

NoResponse == [status |-> 0, headers |-> [k \in {} |-> <<>>], text |-> ""]

\* what a call of requests.post / requests.get can do: raise, or return
TransportErrors == {"ConnectionError", "Timeout"}
Outcomes ==
    [kind : {"raise"}, exc : TransportErrors, resp : {NoResponse}]
    \cup [kind : {"response"}, exc : {"none"}, resp : Responses]

NoOutcome == [kind |-> "none", exc |-> "none", resp |-> NoResponse]

\* ------------------------------------------------------------ JSON values
\* A parsed JSON value: t is its Python type, d the mapping of a dict,
\* s the characters of a str, l the items of a list.
EmptyMap == [k \in {} |-> <<>>]
JDict(f) == [t |-> "dict", d |-> f,        s |-> <<>>, l |-> <<>>]
JStr(cs) == [t |-> "str",  d |-> EmptyMap, s |-> cs,   l |-> <<>>]
JList(q) == [t |-> "list", d |-> EmptyMap, s |-> <<>>, l |-> q]
JNull    == [t |-> "None", d |-> EmptyMap, s |-> <<>>, l |-> <<>>]
JInt     == [t |-> "int",  d |-> EmptyMap, s |-> <<>>, l |-> <<>>]
One(k, v) == [x \in {k} |-> v]

\* response.json(): the value of a body, or a decode error
json_loads(text) ==
    CASE text = "{\"data\": {\"__schema\": {}}}" ->
            [ok |-> TRUE, val |-> JDict(One(K_data, JDict(One(K_schema, JDict(EmptyMap)))))]
      [] text = "{\"data\": {\"__schema\": null}}" ->
            [ok |-> TRUE, val |-> JDict(One(K_data, JDict(One(K_schema, JNull))))]
      [] text = "{\"data\": {}}" ->
            [ok |-> TRUE, val |-> JDict(One(K_data, JDict(EmptyMap)))]
      [] text = "{\"data\": null}" ->
            [ok |-> TRUE, val |-> JDict(One(K_data, JNull))]
      [] text = "{\"errors\": []}" ->
            [ok |-> TRUE, val |-> JDict(One(K_errors, JList(<<>>)))]
      [] text = "{\"data\": \"__schema\"}" ->
            [ok |-> TRUE, val |-> JDict(One(K_data, JStr(K_schema)))]
      [] text = "{\"data\": [\"__schema\"]}" ->
            [ok |-> TRUE, val |-> JDict(One(K_data, JList(<<JStr(K_schema)>>)))]
      [] text = "[\"data\"]" -> [ok |-> TRUE, val |-> JList(<<JStr(K_data)>>)]
      [] text = "\"data\""   -> [ok |-> TRUE, val |-> JStr(K_data)]
      [] text = "null"       -> [ok |-> TRUE, val |-> JNull]
      [] text = "1"          -> [ok |-> TRUE, val |-> JInt]
      [] OTHER               -> [ok |-> FALSE, val |-> JNull]

\* Python `key in container` for a str key: "True", "False" or the exception
PyIn(key, c) ==
    CASE c.t = "dict" -> IF key \in DOMAIN c.d THEN "True" ELSE "False"
      [] c.t = "list" -> IF \E i \in 1..Len(c.l) : c.l[i] = JStr(key)
                         THEN "True" ELSE "False"
      [] c.t = "str"  -> IF Contains(c.s, key) THEN "True" ELSE "False"
      [] OTHER        -> "TypeError"

\* Python `container[key]` for a str key: the item, or the exception
PyGetItem(c, key) ==
    CASE c.t = "dict" -> IF key \in DOMAIN c.d
                         THEN [exc |-> "none", val |-> c.d[key]]
                         ELSE [exc |-> "KeyError", val |-> JNull]
      [] OTHER        -> [exc |-> "TypeError", val |-> JNull]

\* 'data' in data and '__schema' in data['data']
SchemaTest(data) ==
    LET first == PyIn(K_data, data) IN
    IF first # "True" THEN first
    ELSE LET item == PyGetItem(data, K_data) IN
         IF item.exc # "none" THEN item.exc ELSE PyIn(K_schema, item.val)

\* ------------------------------------------------------ check_introspection
\* response.headers.get(name, default)
HeadersGet(h, name, default) == IF name \in DOMAIN h THEN h[name] ELSE default

\* faulty variant: any text/ type counts as HTML
is_html_any_text(resp) ==
    LET content_type == Lower(HeadersGet(resp.headers, "Content-Type", <<>>))
    IN  Contains(content_type, <<"t","e","x","t","/">>)

is_html(resp) ==
    LET content_type == Lower(HeadersGet(resp.headers, "Content-Type", <<>>))
    IN  Contains(content_type, TEXT_HTML)

\* faulty variant: only the 4xx branch
raise_for_status_4xx_only(resp) ==
    IF 400 <= resp.status /\ resp.status < 500 THEN "HTTPError" ELSE "none"

\* response.raise_for_status(): HTTPError for a 4xx or 5xx status
raise_for_status(resp) ==
    IF (400 <= resp.status /\ resp.status < 500)
       \/ (500 <= resp.status /\ resp.status < 600)
    THEN "HTTPError" ELSE "none"

\* faulty variant: the body is parsed whatever the Content-Type
TryTailAlwaysParses(resp, decodeExc) ==
    IF raise_for_status(resp) # "none"
    THEN [exc |-> raise_for_status(resp), ret |-> FALSE, json_called |-> FALSE]
    ELSE LET parsed == json_loads(resp.text) IN
         IF ~parsed.ok
         THEN [exc |-> decodeExc, ret |-> FALSE, json_called |-> TRUE]
         ELSE LET test == SchemaTest(parsed.val) IN
              IF test = "True"
              THEN [exc |-> "none", ret |-> TRUE, json_called |-> TRUE]
              ELSE IF test = "False"
              THEN [exc |-> "none", ret |-> FALSE, json_called |-> TRUE]
              ELSE [exc |-> test, ret |-> FALSE, json_called |-> TRUE]

\* The part of the try block after the requests: what it returns or raises,
\* and whether response.json() was called.  decodeExc is the class the
\* installed requests raises for an undecodable body.
TryTail(resp, decodeExc) ==
    IF raise_for_status(resp) # "none"
    THEN [exc |-> raise_for_status(resp), ret |-> FALSE, json_called |-> FALSE]
    ELSE LET content_type == Lower(HeadersGet(resp.headers, "Content-Type", <<>>)) IN
         IF Contains(content_type, APPLICATION_JSON)
         THEN LET parsed == json_loads(resp.text) IN
              IF ~parsed.ok
              THEN [exc |-> decodeExc, ret |-> FALSE, json_called |-> TRUE]
              ELSE LET test == SchemaTest(parsed.val) IN
                   IF test = "True"
                   THEN [exc |-> "none", ret |-> TRUE, json_called |-> TRUE]
                   ELSE IF test = "False"
                   THEN [exc |-> "none", ret |-> FALSE, json_called |-> TRUE]
                   ELSE [exc |-> test, ret |-> FALSE, json_called |-> TRUE]
         ELSE [exc |-> "none", ret |-> FALSE, json_called |-> FALSE]

\* the exception classes that occur, each with its base classes
Bases(exc) ==
    CASE exc \in {"ConnectionError", "Timeout", "HTTPError"} ->
            {exc, "RequestException", "Exception"}
      [] exc = "JSONDecodeError" -> {exc, "ValueError", "Exception"}
      [] exc = "RequestsJSONDecodeError" ->
            {exc, "RequestException", "JSONDecodeError", "ValueError", "Exception"}
      [] exc \in {"TypeError", "KeyError"} -> {exc, "Exception"}
      [] OTHER -> {exc}

DecodeErrors == {"JSONDecodeError", "RequestsJSONDecodeError"}

\* faulty variant: no `except Exception` clause
ExceptClauseNoCatchAll(exc) ==
    IF "RequestException" \in Bases(exc) THEN "RequestException"
    ELSE IF "JSONDecodeError" \in Bases(exc) THEN "JSONDecodeError"
    ELSE "uncaught"

\* the except clauses in order: the clause that handles exc, or "uncaught"
ExceptClause(exc) ==
    IF "RequestException" \in Bases(exc) THEN "RequestException"
    ELSE IF "JSONDecodeError" \in Bases(exc) THEN "JSONDecodeError"
    ELSE IF "Exception" \in Bases(exc) THEN "Exception"
    ELSE "uncaught"

VARIABLES
    use_post,      \* the use_post argument
    pc,            \* START, POST_SENT, HTML_DETECTED, GET_SENT, RESULT
    response,      \* the local variable response
    post_outcome,  \* what requests.post did
    get_outcome,   \* what requests.get did
    sent,          \* the requests issued, in order
    raised,        \* exception in flight inside the try block
    returned,      \* check_introspection has returned
    ret,           \* its return value
    escaped,       \* exception that left check_introspection
    json_called,   \* response.json() was called
    handler,       \* the except clause that ran
    \* parse_headers
    header_list,   \* the argument header_list
    h_i,           \* index of the next header_str of the loop
    headers,       \* the dict headers, as <<key, value>> pairs in insertion order
    h_errors,      \* the header strings logged by logging.error, in order
    h_pc,          \* loop, returned
    \* URL validation and normalisation of main
    url_arg,       \* args.url
    url,           \* the local variable url
    n_pc,          \* validate, normalize, done, exit
    \* main
    argv,          \* the command line
    parser,        \* the local variable parser
    m_pc,          \* start, setup_done, exited
    stdout,        \* the lines printed
    exit_status,   \* -1 while running
    traceback      \* the exception that ended the process

probeVars == <<use_post, pc, response, post_outcome, get_outcome, sent,
               raised, returned, ret, escaped, json_called, handler>>
hdrVars   == <<header_list, h_i, headers, h_errors, h_pc>>
normVars  == <<url_arg, url, n_pc>>
mainVars  == <<argv, parser, m_pc, stdout, exit_status, traceback>>
vars      == <<probeVars, hdrVars, normVars, mainVars>>

ProbeIdle ==
    /\ pc = "START"
    /\ response = NoResponse
    /\ post_outcome = NoOutcome
    /\ get_outcome = NoOutcome
    /\ sent = <<>>
    /\ raised = "none"
    /\ returned = FALSE
    /\ ret = FALSE
    /\ escaped = "none"
    /\ json_called = FALSE
    /\ handler = "none"

\* lines 134 and 136: requests.post(url, json=payload, ...)
PostRequest ==
    /\ pc = "START"
    /\ \E o \in Outcomes :
          /\ post_outcome' = o
          /\ raised' = o.exc
          /\ response' = IF o.kind = "response" THEN o.resp ELSE response
    /\ sent' = Append(sent, [method |-> "POST", query_in |-> "json"])
    /\ pc' = "POST_SENT"
    /\ UNCHANGED <<use_post, get_outcome, returned, ret, escaped, json_called, handler>>
    /\ UNCHANGED <<hdrVars, normVars, mainVars>>

\* faulty variant: the fallback is tried in forced-POST mode too
HtmlDetectedWhenForced ==
    /\ pc = "POST_SENT"
    /\ raised = "none"
    /\ is_html(response)
    /\ pc' = "HTML_DETECTED"
    /\ UNCHANGED <<use_post, response, post_outcome, get_outcome, sent, raised,
                   returned, ret, escaped, json_called, handler>>
    /\ UNCHANGED <<hdrVars, normVars, mainVars>>

\* lines 135-140: not forced, and the POST response is HTML
HtmlDetected ==
    /\ pc = "POST_SENT"
    /\ raised = "none"
    /\ ~use_post
    /\ is_html(response)
    /\ pc' = "HTML_DETECTED"
    /\ UNCHANGED <<use_post, response, post_outcome, get_outcome, sent, raised,
                   returned, ret, escaped, json_called, handler>>
    /\ UNCHANGED <<hdrVars, normVars, mainVars>>

\* faulty variant: the GET's response is not assigned to response
GetRequestKeepsPost ==
    /\ pc = "HTML_DETECTED"
    /\ \E o \in Outcomes :
          /\ get_outcome' = o
          /\ raised' = o.exc
    /\ response' = response
    /\ sent' = Append(sent, [method |-> "GET", query_in |-> "params"])
    /\ pc' = "GET_SENT"
    /\ UNCHANGED <<use_post, post_outcome, returned, ret, escaped, json_called, handler>>
    /\ UNCHANGED <<hdrVars, normVars, mainVars>>

\* line 141: requests.get(url, params=payload, ...)
GetRequest ==
    /\ pc = "HTML_DETECTED"
    /\ \E o \in Outcomes :
          /\ get_outcome' = o
          /\ raised' = o.exc
          /\ response' = IF o.kind = "response" THEN o.resp ELSE response
    /\ sent' = Append(sent, [method |-> "GET", query_in |-> "params"])
    /\ pc' = "GET_SENT"
    /\ UNCHANGED <<use_post, post_outcome, returned, ret, escaped, json_called, handler>>
    /\ UNCHANGED <<hdrVars, normVars, mainVars>>

\* lines 144-168: the rest of the try block and the except clauses
Finish(tail) ==
    /\ json_called' = tail.json_called
    /\ raised' = "none"
    /\ pc' = "RESULT"
    /\ IF tail.exc = "none"
       THEN /\ returned' = TRUE
            /\ ret' = tail.ret
            /\ handler' = "none"
            /\ escaped' = "none"
       ELSE /\ handler' = ExceptClause(tail.exc)
            /\ IF ExceptClause(tail.exc) = "uncaught"
               THEN /\ escaped' = tail.exc
                    /\ returned' = FALSE
                    /\ ret' = ret
               ELSE /\ escaped' = "none"
                    /\ returned' = TRUE
                    /\ ret' = FALSE
    /\ UNCHANGED <<use_post, response, post_outcome, get_outcome, sent>>
    /\ UNCHANGED <<hdrVars, normVars, mainVars>>

Evaluate ==
    /\ \/ pc = "GET_SENT"
       \/ pc = "POST_SENT" /\ (raised # "none" \/ use_post \/ ~is_html(response))
    /\ IF raised # "none"
       THEN Finish([exc |-> raised, ret |-> FALSE, json_called |-> FALSE])
       ELSE \E decodeExc \in DecodeErrors : Finish(TryTail(response, decodeExc))

\* ------------------------------------------------------------ parse_headers
WS == {" ", "\t", "\n", "\r"}

\* index of the first sep in s, 0 when there is none
RECURSIVE FindFrom(_, _, _)
FindFrom(s, sep, i) ==
    IF i > Len(s) THEN 0
    ELSE IF s[i] = sep THEN i
    ELSE FindFrom(s, sep, i + 1)

\* header_str.split(":", 1): one or two parts
Split1(s, sep) ==
    LET i == FindFrom(s, sep, 1) IN
    IF i = 0 THEN <<s>>
    ELSE <<SubSeq(s, 1, i - 1), SubSeq(s, i + 1, Len(s))>>

RECURSIVE LStrip(_)
LStrip(s) == IF s # <<>> /\ Head(s) \in WS THEN LStrip(Tail(s)) ELSE s

RECURSIVE RStrip(_)
RStrip(s) ==
    IF s # <<>> /\ s[Len(s)] \in WS THEN RStrip(SubSeq(s, 1, Len(s) - 1)) ELSE s

\* faulty variant: lstrip() in place of strip()
StripLeftOnly(s) == LStrip(s)

\* str.strip()
Strip(s) == RStrip(LStrip(s))

\* headers[k] = v: a new key goes last, an old key keeps its place
DictSet(d, k, v) ==
    IF \E i \in 1..Len(d) : d[i][1] = k
    THEN [i \in 1..Len(d) |-> IF d[i][1] = k THEN <<k, v>> ELSE d[i]]
    ELSE Append(d, <<k, v>>)

\* lines 176-177: the unpacking succeeds
HeaderOk ==
    /\ h_pc = "loop"
    /\ h_i <= Len(header_list)
    /\ LET parts == Split1(header_list[h_i], ":") IN
         /\ Len(parts) = 2
         /\ headers' = DictSet(headers, Strip(parts[1]), Strip(parts[2]))
    /\ h_i' = h_i + 1
    /\ UNCHANGED <<header_list, h_errors, h_pc>>
    /\ UNCHANGED <<probeVars, normVars, mainVars>>

\* lines 176, 178-179: the unpacking raises ValueError
HeaderInvalid ==
    /\ h_pc = "loop"
    /\ h_i <= Len(header_list)
    /\ Len(Split1(header_list[h_i], ":")) # 2
    /\ h_errors' = Append(h_errors, header_list[h_i])
    /\ h_i' = h_i + 1
    /\ UNCHANGED <<header_list, headers, h_pc>>
    /\ UNCHANGED <<probeVars, normVars, mainVars>>

\* line 180
HeadersReturn ==
    /\ h_pc = "loop"
    /\ h_i > Len(header_list)
    /\ h_pc' = "returned"
    /\ UNCHANGED <<header_list, h_i, headers, h_errors>>
    /\ UNCHANGED <<probeVars, normVars, mainVars>>

HChars == {"a", ":", " "}

SeqsUpTo(S, n) == UNION { [1..k -> S] : k \in 0..n }

HeaderStrings == SeqsUpTo(HChars, MaxStrLen)

\* the lists of at most n header strings with at most budget characters in all
RECURSIVE HeaderLists(_, _)
HeaderLists(n, budget) ==
    IF n = 0 THEN { <<>> }
    ELSE { <<>> } \cup
         UNION { { <<str>> \o rest : rest \in HeaderLists(n - 1, budget - Len(str)) } :
                 str \in { x \in HeaderStrings : Len(x) <= budget } }

HdrIdle ==
    /\ h_i = 1
    /\ headers = <<>>
    /\ h_errors = <<>>
    /\ h_pc = "loop"

\* ------------------------------------------- URL validation and normalisation
HTTP_  == <<"h","t","t","p",":","/","/">>
HTTPS_ == <<"h","t","t","p","s",":","/","/">>

\* faulty variant: only https:// counts as a scheme
normalize_https_only(u) ==
    IF ~StartsWith(u, HTTPS_)
    THEN HTTPS_ \o u
    ELSE u

\* lines 200-202
normalize(u) ==
    IF ~(StartsWith(u, HTTP_) \/ StartsWith(u, HTTPS_))
    THEN HTTPS_ \o u
    ELSE u

\* lines 195-197
Validate ==
    /\ n_pc = "validate"
    /\ n_pc' = IF url = <<>> THEN "exit" ELSE "normalize"
    /\ UNCHANGED <<url_arg, url>>
    /\ UNCHANGED <<probeVars, hdrVars, mainVars>>

\* lines 200-202
Normalize ==
    /\ n_pc = "normalize"
    /\ url' = normalize(url)
    /\ n_pc' = "done"
    /\ UNCHANGED url_arg
    /\ UNCHANGED <<probeVars, hdrVars, mainVars>>

UrlPrefixes ==
    { <<>>, HTTP_, HTTPS_,
      <<"H","T","T","P",":","/","/">>,
      <<"h","t","t","p",":","/">>,
      <<"h","t","t","p","s",":","/">>,
      <<"x">> \o HTTPS_,
      <<"f","t","p",":","/","/">> }

Urls == { p \o r : p \in UrlPrefixes, r \in SeqsUpTo({"x", "/", ":"}, MaxRest) }

NormIdle ==
    /\ url = url_arg
    /\ n_pc = "validate"

\* ------------------------------------------------------------------- main
\* parse_headers as a whole: the dict and the logged strings
RECURSIVE ParseFrom(_, _, _, _)
ParseFrom(list, i, d, errs) ==
    IF i > Len(list) THEN [headers |-> d, errors |-> errs]
    ELSE LET parts == Split1(list[i], ":") IN
         IF Len(parts) = 2
         THEN ParseFrom(list, i + 1, DictSet(d, Strip(parts[1]), Strip(parts[2])), errs)
         ELSE ParseFrom(list, i + 1, d, Append(errs, list[i]))

parse_headers(list) == ParseFrom(list, 1, <<>>, <<>>)

\* check_introspection as a whole, given what the network does
check_introspection(up, po, go, decodeExc) ==
    LET finish(tail) ==
            IF tail.exc = "none" THEN [ret |-> tail.ret, escaped |-> "none"]
            ELSE IF ExceptClause(tail.exc) = "uncaught"
            THEN [ret |-> FALSE, escaped |-> tail.exc]
            ELSE [ret |-> FALSE, escaped |-> "none"]
        after(o) ==
            IF o.kind = "raise"
            THEN finish([exc |-> o.exc, ret |-> FALSE, json_called |-> FALSE])
            ELSE finish(TryTail(o.resp, decodeExc))
    IN  IF po.kind = "response" /\ ~up /\ is_html(po.resp)
        THEN after(go)
        ELSE after(po)

\* parser.parse_args() of an ArgumentParser with a positional url,
\* -H/--header (append) and -p/--post (store_true)
ParseArgs(a) ==
    [cls |-> "Namespace", url |-> a.url, header |-> a.header, post |-> a.post]

NoObject == [cls |-> "NoneType", url |-> <<>>, header |-> <<>>, post |-> FALSE]

\* the attributes an object of the class has
Attributes(obj) ==
    CASE obj.cls = "ArgumentParser" -> {"add_argument", "parse_args"}
      [] obj.cls = "Namespace"      -> {"url", "header", "post"}
      [] OTHER                      -> {}

ENABLED_LINE  == "GraphQL introspection is ENABLED."
DISABLED_LINE == "GraphQL introspection is DISABLED or restricted."

\* line 187 with lines 103-108: setup_argparse() returns parser.parse_args()
SetupArgparse ==
    /\ m_pc = "start"
    /\ IF ~argv.url_given
       THEN \* argparse: "the following arguments are required: url"
            /\ exit_status' = 2
            /\ m_pc' = "exited"
            /\ parser' = parser
       ELSE /\ parser' = ParseArgs(argv)
            /\ m_pc' = "setup_done"
            /\ exit_status' = exit_status
    /\ UNCHANGED <<argv, stdout, traceback>>
    /\ UNCHANGED <<probeVars, hdrVars, normVars>>

\* lines 188-209
MainBody ==
    /\ m_pc = "setup_done"
    /\ m_pc' = "exited"
    /\ IF "parse_args" \notin Attributes(parser)
       THEN \* line 188: parser.parse_args() on what setup_argparse returned
            /\ traceback' = "AttributeError"
            /\ exit_status' = 1
            /\ stdout' = stdout
       ELSE LET args == ParseArgs(argv)
                hdrs == parse_headers(args.header).headers
            IN  IF args.url = <<>>
                THEN /\ exit_status' = 1
                     /\ stdout' = stdout
                     /\ traceback' = traceback
                ELSE \E po \in Outcomes, go \in Outcomes, decodeExc \in DecodeErrors :
                       LET r == check_introspection(args.post, po, go, decodeExc) IN
                       IF r.escaped # "none"
                       THEN /\ traceback' = r.escaped
                            /\ exit_status' = 1
                            /\ stdout' = stdout
                       ELSE /\ stdout' = Append(stdout,
                                   IF r.ret THEN ENABLED_LINE ELSE DISABLED_LINE)
                            /\ exit_status' = 0
                            /\ traceback' = traceback
    /\ UNCHANGED <<argv, parser>>
    /\ UNCHANGED <<probeVars, hdrVars, normVars>>

HeaderArgs == { <<>>, <<<<"a", ":", "a">>>>, <<<<"a">>>> }

Argvs ==
    [url_given : {TRUE}, url : Urls, header : HeaderArgs, post : BOOLEAN]
    \cup [url_given : {FALSE}, url : {<<>>}, header : HeaderArgs, post : BOOLEAN]

MainIdle ==
    /\ parser = NoObject
    /\ m_pc = "start"
    /\ stdout = <<>>
    /\ exit_status = -1
    /\ traceback = "none"

\* --------------------------------------------------------- specifications
\* a component that is not running
ProbeOff ==
    /\ use_post = FALSE
    /\ pc = "off"
    /\ response = NoResponse
    /\ post_outcome = NoOutcome
    /\ get_outcome = NoOutcome
    /\ sent = <<>>
    /\ raised = "none"
    /\ returned = FALSE
    /\ ret = FALSE
    /\ escaped = "none"
    /\ json_called = FALSE
    /\ handler = "none"

HdrOff ==
    /\ header_list = <<>>
    /\ h_i = 1
    /\ headers = <<>>
    /\ h_errors = <<>>
    /\ h_pc = "off"

NormOff ==
    /\ url_arg = <<>>
    /\ url = <<>>
    /\ n_pc = "off"

MainOff ==
    /\ argv = [url_given |-> FALSE, url |-> <<>>, header |-> <<>>, post |-> FALSE]
    /\ parser = NoObject
    /\ m_pc = "off"
    /\ stdout = <<>>
    /\ exit_status = -1
    /\ traceback = "none"

\* check_introspection(url, headers, use_post)
Init ==
    /\ use_post \in BOOLEAN
    /\ ProbeIdle
    /\ HdrOff /\ NormOff /\ MainOff

Next ==
    \/ PostRequest
    \/ HtmlDetected
    \/ GetRequest
    \/ Evaluate

Spec == Init /\ [][Next]_vars

\* parse_headers(header_list)
InitHeaders ==
    /\ header_list \in HeaderLists(MaxHeaders, MaxChars)
    /\ HdrIdle
    /\ ProbeOff /\ NormOff /\ MainOff

NextHeaders ==
    \/ HeaderOk
    \/ HeaderInvalid
    \/ HeadersReturn

SpecHeaders == InitHeaders /\ [][NextHeaders]_vars

\* lines 190-202 of main, for any args.url
InitNorm ==
    /\ url_arg \in Urls
    /\ NormIdle
    /\ ProbeOff /\ HdrOff /\ MainOff

NextNorm ==
    \/ Validate
    \/ Normalize

SpecNorm == InitNorm /\ [][NextNorm]_vars

\* main(), for any command line; weak fairness: the process keeps running
InitMain ==
    /\ argv \in Argvs
    /\ MainIdle
    /\ ProbeOff /\ HdrOff /\ NormOff

NextMain ==
    \/ SetupArgparse
    \/ MainBody

SpecMain == InitMain /\ [][NextMain]_vars /\ WF_vars(NextMain)

\* ================================================================ properties
\* the Content-Type of a response as sent, "" when the header is absent
ContentTypeOf(resp) ==
    IF "Content-Type" \in DOMAIN resp.headers THEN resp.headers["Content-Type"] ELSE <<>>

\* the media type named by needle occurs in the Content-Type (media types are
\* case-insensitive)
MediaTypeIn(resp, needle) ==
    \E i \in 1..Len(ContentTypeOf(resp)) :
        /\ i + Len(needle) - 1 <= Len(ContentTypeOf(resp))
        /\ \A j \in 1..Len(needle) : LowerChar(ContentTypeOf(resp)[i + j - 1]) = needle[j]

POST_ == [method |-> "POST", query_in |-> "json"]
GET_  == [method |-> "GET", query_in |-> "params"]

\* the outcome of the last request issued
FinalOutcome == IF get_outcome.kind # "none" THEN get_outcome ELSE post_outcome

HtmlPost == post_outcome.kind = "response" /\ MediaTypeIn(post_outcome.resp, TEXT_HTML)

\* the verdict a GET outcome alone determines
VerdictOfGet(o) == check_introspection(TRUE, o, NoOutcome, "JSONDecodeError").ret

\* a JSON object with the field
HasField(v, k) == v.t = "dict" /\ k \in DOMAIN v.d

\* ---- C1: every run of main() with a non-empty URL argument ends having
\* printed exactly one of the two verdict lines, and is not aborted before it.
C1_VerdictPrinted ==
    (m_pc = "exited" /\ argv.url_given /\ argv.url # <<>>) =>
        /\ traceback = "none"
        /\ Len(stdout) = 1
        /\ stdout[1] \in {ENABLED_LINE, DISABLED_LINE}

\* ---- C2: without use_post, after a POST response whose Content-Type contains
\* text/html a GET with the query as URL parameters is issued next, and the
\* verdict is a function of the GET's outcome only.
C2_GetDecides ==
    /\ (pc \in {"GET_SENT", "RESULT"} /\ ~use_post /\ HtmlPost) => sent = <<POST_, GET_>>
    /\ (pc = "POST_SENT" /\ ~use_post /\ HtmlPost) => ~ENABLED Evaluate
    /\ (pc = "RESULT" /\ ~use_post /\ HtmlPost) =>
          (returned /\ ret = VerdictOfGet(get_outcome))

C2_Witness ==
    /\ pc = "RESULT" /\ ~use_post /\ HtmlPost
    /\ post_outcome.resp.status = 500
    /\ get_outcome.kind = "response"
    /\ returned /\ ret = TRUE

\* ---- C3: with use_post true no GET request is ever issued, whatever the
\* POST response.
C3_NoGetWhenForced ==
    use_post =>
        /\ \A i \in 1..Len(sent) : sent[i].method # "GET"
        /\ get_outcome = NoOutcome
        /\ pc \notin {"HTML_DETECTED", "GET_SENT"}

C3_Witness == use_post /\ pc = "RESULT" /\ HtmlPost /\ sent = <<POST_>>

\* ---- C4 as stated: if any response received in the run (POST or GET) has a
\* status of 400 or more, the verdict is false and no exception escapes.
C4_AnyErrorStatusFalse ==
    (pc = "RESULT"
       /\ \/ (post_outcome.kind = "response" /\ post_outcome.resp.status >= 400)
          \/ (get_outcome.kind = "response" /\ get_outcome.resp.status >= 400))
    => (returned /\ ret = FALSE /\ escaped = "none")

\* ---- C4 amended: if the final response (the GET response when the fallback
\* ran, else the POST response) has a 4xx or 5xx status, the verdict is false
\* and no exception escapes.
C4_FinalErrorStatusFalse ==
    (pc = "RESULT"
       /\ FinalOutcome.kind = "response"
       /\ FinalOutcome.resp.status >= 400 /\ FinalOutcome.resp.status <= 599)
    => (returned /\ ret = FALSE /\ escaped = "none")

C4_Witness ==
    /\ pc = "RESULT" /\ returned /\ ~ret
    /\ get_outcome.kind = "response"
    /\ get_outcome.resp.status = 500
    /\ MediaTypeIn(get_outcome.resp, APPLICATION_JSON)
    /\ get_outcome.resp.text = "{\"data\": {\"__schema\": {}}}"

\* ---- C5: for a final response with status below 400, a JSON Content-Type
\* and a body that parses, the verdict is true exactly when the parsed value
\* has a top-level field data that has a field __schema.
C5_TrueIffDataSchemaField ==
    (pc = "RESULT"
       /\ FinalOutcome.kind = "response"
       /\ FinalOutcome.resp.status < 400
       /\ MediaTypeIn(FinalOutcome.resp, APPLICATION_JSON)
       /\ json_loads(FinalOutcome.resp.text).ok)
    => LET v == json_loads(FinalOutcome.resp.text).val IN
       /\ returned
       /\ ret <=> (HasField(v, K_data) /\ HasField(v.d[K_data], K_schema))

\* ---- C6: when the final response's Content-Type does not contain
\* application/json, the verdict is false and the body is never parsed.
C6_NonJsonNeverParsed ==
    (pc = "RESULT"
       /\ FinalOutcome.kind = "response"
       /\ ~MediaTypeIn(FinalOutcome.resp, APPLICATION_JSON))
    => (returned /\ ret = FALSE /\ ~json_called)

C6_Witness ==
    /\ pc = "RESULT" /\ returned /\ ~ret /\ ~json_called
    /\ FinalOutcome.kind = "response"
    /\ FinalOutcome.resp.status = 200
    /\ ~MediaTypeIn(FinalOutcome.resp, APPLICATION_JSON)
    /\ FinalOutcome.resp.text = "{\"data\": {\"__schema\": {}}}"

\* a failure occurred at some step of the run: a transport error, an error
\* status, an undecodable body, or a parsed value the test cannot be applied to
FailureOccurred ==
    \/ post_outcome.kind = "raise"
    \/ get_outcome.kind = "raise"
    \/ /\ FinalOutcome.kind = "response"
       /\ \/ FinalOutcome.resp.status \in 400..599
          \/ /\ MediaTypeIn(FinalOutcome.resp, APPLICATION_JSON)
             /\ \/ ~json_loads(FinalOutcome.resp.text).ok
                \/ SchemaTest(json_loads(FinalOutcome.resp.text).val)
                      \in {"TypeError", "KeyError"}

HasColon(str) == \E k \in 1..Len(str) : str[k] = ":"

\* t is r without its leading and trailing whitespace
IsTrimOf(t, r) ==
    \E a \in 0..Len(r), b \in 0..Len(r) :
        /\ a + b <= Len(r)
        /\ \A m \in 1..a : r[m] \in WS
        /\ \A m \in (Len(r) - b + 1)..Len(r) : r[m] \in WS
        /\ t = SubSeq(r, a + 1, Len(r) - b)
        /\ t = <<>> \/ (t[1] \notin WS /\ t[Len(t)] \notin WS)

\* n and v are the trimmed parts of str before and after its first colon
IsNameValue(str, n, v) ==
    \E k \in 1..Len(str) :
        /\ str[k] = ":"
        /\ \A m \in 1..(k - 1) : str[m] # ":"
        /\ IsTrimOf(n, SubSeq(str, 1, k - 1))
        /\ IsTrimOf(v, SubSeq(str, k + 1, Len(str)))

\* n is the trimmed part of str before its first colon
IsName(str, n) ==
    \E k \in 1..Len(str) :
        /\ str[k] = ":"
        /\ \A m \in 1..(k - 1) : str[m] # ":"
        /\ IsTrimOf(n, SubSeq(str, 1, k - 1))

WellFormedOnly(list) == SelectSeq(list, HasColon)
MalformedOnly(list)  == SelectSeq(list, LAMBDA str : ~HasColon(str))

\* ---- C8: strings without a colon are left out and logged once each, the
\* parse going on; a string with a colon gives the entry (name, value) split
\* at its first colon and trimmed, the last such string for a name deciding
\* its value; and the mapping equals that of the list without the malformed
\* strings.
C8_Headers ==
    h_pc = "returned" =>
        /\ h_i = Len(header_list) + 1
        /\ h_errors = MalformedOnly(header_list)
        /\ \A j \in 1..Len(headers) :
              \E i \in 1..Len(header_list) :
                 /\ IsNameValue(header_list[i], headers[j][1], headers[j][2])
                 /\ \A i2 \in (i + 1)..Len(header_list) :
                       ~IsName(header_list[i2], headers[j][1])
        /\ \A i \in 1..Len(header_list) :
              HasColon(header_list[i]) =>
                 \E j \in 1..Len(headers) : IsName(header_list[i], headers[j][1])
        /\ \A j1, j2 \in 1..Len(headers) : headers[j1][1] = headers[j2][1] => j1 = j2
        /\ headers = parse_headers(WellFormedOnly(header_list)).headers
        /\ parse_headers(WellFormedOnly(header_list)).errors = <<>>

C8_Witness ==
    /\ h_pc = "returned"
    /\ Len(header_list) = 2
    /\ header_list[1] = <<"a">>
    /\ header_list[2] = <<" ", "a", ":">>
    /\ headers = << << <<"a">>, <<>> >> >>
    /\ h_errors = << <<"a">> >>

\* ---- URL normalisation
HasScheme(u) ==
    \/ Len(u) >= 7 /\ SubSeq(u, 1, 7) = <<"h","t","t","p",":","/","/">>
    \/ Len(u) >= 8 /\ SubSeq(u, 1, 8) = <<"h","t","t","p","s",":","/","/">>

\* ---- C9: a URL without an http:// or https:// scheme gets https:// in front
\* once, a URL with one is unchanged; the result always has a scheme, and
\* normalising it again changes nothing.
C9_Normalized ==
    n_pc = "done" =>
        /\ HasScheme(url)
        /\ HasScheme(url_arg) => url = url_arg
        /\ ~HasScheme(url_arg) =>
              (url = <<"h","t","t","p","s",":","/","/">> \o url_arg
               /\ ~HasScheme(SubSeq(url, 9, Len(url))))
        /\ normalize(url) = url

C9_Witness ==
    /\ n_pc = "done"
    /\ url_arg = <<"h","t","t","p",":","/", "x">>
    /\ url = <<"h","t","t","p","s",":","/","/","h","t","t","p",":","/", "x">>

\* ---- C10: every run is START -> POST_SENT -> RESULT or START -> POST_SENT ->
\* HTML_DETECTED -> GET_SENT -> RESULT; the first request is a POST, a GET is
\* issued at most once and only after an HTML POST response, nothing follows
\* the GET, and a finished run has issued one or two requests.
C10_Step ==
    \/ pc = "START" /\ pc' = "POST_SENT" /\ sent = <<>> /\ sent' = <<POST_>>
    \/ pc = "POST_SENT" /\ pc' = "RESULT" /\ sent' = sent
    \/ pc = "POST_SENT" /\ pc' = "HTML_DETECTED" /\ HtmlPost /\ sent' = sent
    \/ pc = "HTML_DETECTED" /\ pc' = "GET_SENT" /\ sent' = <<POST_, GET_>>
    \/ pc = "GET_SENT" /\ pc' = "RESULT" /\ sent' = sent

C10_Sequence ==
    /\ [](pc = "RESULT" => (sent = <<POST_>> \/ (sent = <<POST_, GET_>> /\ HtmlPost)))
    /\ [][C10_Step]_vars

C10_Witness == pc = "RESULT" /\ sent = <<POST_, GET_>> /\ get_outcome.kind = "raise"

====
